---- MODULE Spec2Model ----
(***************************************************************************)
(* A model of geoarrow-rs: the MultiPointArray container                   *)
(* (src/array/multipoint/array.rs) and the WKB multipolygon reader         *)
(* (src/io/native/wkb/multipolygon.rs).                                    *)
(*                                                                         *)
(* An array is a record of a coordinate buffer, an offsets buffer and an   *)
(* optional validity bitmap.  A buffer is modelled by the sequence of      *)
(* values visible through it: slicing a buffer narrows that sequence.      *)
(***************************************************************************)
EXTENDS Integers, Sequences, FiniteSets, TLC

\* ------------------------------------------------------------------ bounds

\* Longest coordinate buffer handed to a constructor.
MaxCoords == 2
\* Most geometries in an array handed to a constructor.
MaxGeoms == 2
\* Width in bits of the narrow offset type.  The program's narrow type is
\* i32; the model keeps two's-complement arithmetic at a width small enough
\* for a coordinate buffer of MaxCoords entries to exceed its range.
NarrowBits == 2

\* The two coordinates (0,0) and (1,1).
CoordVals == {0, 1}

\* ------------------------------------------------------------------ values

RECURSIVE Pow2(_)
Pow2(n) == IF n = 0 THEN 1 ELSE 2 * Pow2(n - 1)

\* Largest value of the narrow offset type.
NarrowMax == Pow2(NarrowBits - 1) - 1

\* The cast `x as i32` at the model's width: wraps modulo 2^NarrowBits.
AsNarrow(x) ==
  LET m == Pow2(NarrowBits)
      r == x % m
  IN  IF r > NarrowMax THEN r - m ELSE r

Last(s) == s[Len(s)]

SeqsUpTo(S, n) == UNION {[1..k -> S] : k \in 0..n}

\* Option<T>
None == [some |-> FALSE]
Some(x) == [some |-> TRUE, v |-> x]

\* Outcomes of an operation.
Panic == [tag |-> "panic"]
Err(e) == [tag |-> "err", e |-> e]
Ok(x) == [tag |-> "ok", v |-> x]
Unit == [tag |-> "unit"]

\* arrow2's OffsetsBuffer<O>: at least one entry, the first one >= 0,
\* non-decreasing, every entry within the range of O.
IsOffsets(s, O) ==
  /\ Len(s) >= 1
  /\ s[1] >= 0
  /\ \A i \in 1..(Len(s) - 1) : s[i] <= s[i + 1]
  /\ O = "i32" => \A i \in 1..Len(s) : s[i] <= NarrowMax

\* OffsetsBuffer::len_proxy
len_proxy(offs) == Len(offs) - 1

\* OffsetsBuffer::start_end
start_end(offs, i) == <<offs[i + 1], offs[i + 2]>>

\* The struct MultiPointArray<C, O>.
MultiPointArray(O, coords, geom_offsets, validity) ==
  [tag |-> "array", O |-> O, coords |-> coords,
   geom_offsets |-> geom_offsets, validity |-> validity]

\* ------------------------------------------------------------ construction

\* check, comparing the validity length with the number of offsets instead of
\* the number of geometries.
check_counts_offsets(coords, validity_len, geom_offsets) ==
  IF validity_len.some /\ validity_len.v # Len(geom_offsets)
  THEN Err("validity mask length must match the number of values")
  ELSE IF Last(geom_offsets) # Len(coords)
  THEN Err("largest geometry offset must match coords length")
  ELSE Ok(Unit)

check(coords, validity_len, geom_offsets) ==
  IF validity_len.some /\ validity_len.v # len_proxy(geom_offsets)
  THEN Err("validity mask length must match the number of values")
  ELSE IF Last(geom_offsets) # Len(coords)
  THEN Err("largest geometry offset must match coords length")
  ELSE Ok(Unit)

\* validity.as_ref().map(|v| v.len())
validity_len_of(validity) ==
  IF validity.some THEN Some(Len(validity.v)) ELSE None

new(O, coords, geom_offsets, validity) ==
  IF check(coords, validity_len_of(validity), geom_offsets).tag = "ok"
  THEN MultiPointArray(O, coords, geom_offsets, validity)
  ELSE Panic

try_new(O, coords, geom_offsets, validity) ==
  LET c == check(coords, validity_len_of(validity), geom_offsets)
  IN  IF c.tag = "ok"
      THEN Ok(MultiPointArray(O, coords, geom_offsets, validity))
      ELSE c

\* ------------------------------------------------------------------ access

len(a) == len_proxy(a.geom_offsets)

validity(a) == a.validity

\* GeometryArrayTrait::is_null: the validity bit of slot i is unset.
is_null(a, i) == a.validity.some /\ ~a.validity.v[i + 1]

\* The scalar MultiPoint at slot i, by the coordinates it covers.
value(a, i) ==
  LET se == start_end(a.geom_offsets, i)
  IN  IF se[2] <= Len(a.coords)
      THEN Ok(SubSeq(a.coords, se[1] + 1, se[2]))
      ELSE Panic

\* GeometryArrayTrait::get
get(a, i) == IF is_null(a, i) THEN None ELSE Some(value(a, i))

\* ----------------------------------------------------------------- slicing

\* util::slice_validity_unchecked
slice_validity_unchecked(v, offset, length) ==
  IF v.some THEN Some(SubSeq(v.v, offset + 1, offset + length)) ELSE None

\* OffsetsBuffer::slice_unchecked
offsets_slice_unchecked(offs, offset, length) ==
  SubSeq(offs, offset + 1, offset + length)

\* slice_unchecked, leaving the validity bitmap as it was.
slice_unchecked_keeps_validity(a, offset, length) ==
  [a EXCEPT !.geom_offsets =
               offsets_slice_unchecked(a.geom_offsets, offset, length + 1)]

slice_unchecked(a, offset, length) ==
  [a EXCEPT !.validity = slice_validity_unchecked(a.validity, offset, length),
            !.geom_offsets =
               offsets_slice_unchecked(a.geom_offsets, offset, length + 1)]

slice(a, offset, length) ==
  IF offset + length <= len(a)
  THEN slice_unchecked(a, offset, length)
  ELSE Panic

\* util::owned_slice_offsets: the lengths of the requested geometries,
\* accumulated from zero into a fresh buffer.
owned_slice_offsets(offs, offset, length) ==
  [k \in 1..(length + 1) |-> offs[offset + k] - offs[offset + 1]]

\* util::owned_slice_validity
owned_slice_validity(v, offset, length) ==
  IF v.some THEN Some(SubSeq(v.v, offset + 1, offset + length)) ELSE None

\* CoordBuffer::owned_slice
coords_owned_slice(coords, offset, length) ==
  IF offset + length <= Len(coords)
  THEN Ok(SubSeq(coords, offset + 1, offset + length))
  ELSE Panic

\* owned_slice, taking the end of the coordinate range one geometry early.
owned_slice_short_coords(a, offset, length) ==
  IF ~(offset + length <= len(a)) THEN Panic
  ELSE IF ~(length >= 1) THEN Panic
  ELSE
    LET start_coord_idx == start_end(a.geom_offsets, offset)[1]
        end_coord_idx == start_end(a.geom_offsets, offset + length - 1)[1]
        geom_offsets == owned_slice_offsets(a.geom_offsets, offset, length)
        coords == coords_owned_slice(a.coords, start_coord_idx,
                                     end_coord_idx - start_coord_idx)
        v == owned_slice_validity(validity(a), offset, length)
    IN  IF coords.tag = "panic" THEN Panic
        ELSE new(a.O, coords.v, geom_offsets, v)

\* owned_slice, copying the coordinates from the start of the buffer instead
\* of from the first requested geometry.
owned_slice_from_zero(a, offset, length) ==
  IF ~(offset + length <= len(a)) THEN Panic
  ELSE IF ~(length >= 1) THEN Panic
  ELSE
    LET start_coord_idx == 0
        end_coord_idx == start_end(a.geom_offsets, offset + length - 1)[2]
        geom_offsets == owned_slice_offsets(a.geom_offsets, offset, length)
        coords == coords_owned_slice(a.coords, start_coord_idx,
                                     end_coord_idx - start_coord_idx)
        v == owned_slice_validity(validity(a), offset, length)
    IN  IF coords.tag = "panic" THEN Panic
        ELSE new(a.O, coords.v, geom_offsets, v)

owned_slice(a, offset, length) ==
  IF ~(offset + length <= len(a)) THEN Panic
  ELSE IF ~(length >= 1) THEN Panic
  ELSE
    LET start_coord_idx == start_end(a.geom_offsets, offset)[1]
        end_coord_idx == start_end(a.geom_offsets, offset + length - 1)[2]
        geom_offsets == owned_slice_offsets(a.geom_offsets, offset, length)
        coords == coords_owned_slice(a.coords, start_coord_idx,
                                     end_coord_idx - start_coord_idx)
        v == owned_slice_validity(validity(a), offset, length)
    IN  IF coords.tag = "panic" THEN Panic
        ELSE new(a.O, coords.v, geom_offsets, v)

\* ------------------------------------------------- from geometry objects

RECURSIVE Concat(_)
Concat(ss) == IF ss = <<>> THEN <<>> ELSE Head(ss) \o Concat(Tail(ss))

\* The points of an optional multipoint: a null entry adds no coordinate.
points_of(g) == IF g.some THEN g.v ELSE <<>>

\* MutableMultiPointArray from Vec<Option<geo::MultiPoint>>: the coordinates
\* of every entry in order, the running sum of the entries' point counts,
\* and a validity bit per entry.
mutable_coords(geoms) == Concat([k \in 1..Len(geoms) |-> points_of(geoms[k])])

RECURSIVE mutable_offsets(_, _)
mutable_offsets(geoms, k) ==
  IF k = 0 THEN <<0>>
  ELSE LET prev == mutable_offsets(geoms, k - 1)
       IN  Append(prev, Last(prev) + Len(points_of(geoms[k])))

\* The bitmap is kept only when some entry is null.
mutable_validity(geoms) ==
  IF \A k \in 1..Len(geoms) : geoms[k].some THEN None
  ELSE Some([k \in 1..Len(geoms) |-> geoms[k].some])

IsSome(g) == g.some

\* from_geo, converting only the entries that are not null.
from_geo_flattened(O, geoms) ==
  LET present == SelectSeq(geoms, IsSome)
  IN  IF O = "i32" /\ Len(mutable_coords(present)) > NarrowMax THEN Panic
      ELSE new(O, mutable_coords(present),
               mutable_offsets(present, Len(present)),
               mutable_validity(present))

\* From<Vec<Option<geo::MultiPoint>>> for MultiPointArray<C, O>; an offset
\* beyond the range of O cannot be pushed.
from_geo(O, geoms) ==
  IF O = "i32" /\ Len(mutable_coords(geoms)) > NarrowMax THEN Panic
  ELSE new(O, mutable_coords(geoms), mutable_offsets(geoms, Len(geoms)),
           mutable_validity(geoms))

\* ---------------------------------------------------------------- iteration

\* GeometryArrayTrait::value_as_geo: the scalar at slot i as a geo::MultiPoint.
value_as_geo(a, i) == value(a, i)

\* iter_geo_values: value_as_geo(i) for every slot in index order, whatever
\* the validity; a slot that cannot be read panics the iteration.
iter_geo_values(a) ==
  IF \E i \in 0..(len(a) - 1) : value_as_geo(a, i).tag = "panic" THEN Panic
  ELSE Ok([k \in 1..len(a) |-> value_as_geo(a, k - 1).v])

\* iter_geo, yielding every value whatever its validity bit.
iter_geo_ignores_validity(a) ==
  LET vals == iter_geo_values(a)
  IN  IF vals.tag = "panic" THEN Panic
      ELSE Ok([k \in 1..Len(vals.v) |-> Some(vals.v[k])])

\* iter_geo: ZipValidity of iter_geo_values with the validity bitmap: None
\* where the bit is unset, Some(value) elsewhere.
iter_geo(a) ==
  LET vals == iter_geo_values(a)
  IN  IF vals.tag = "panic" THEN Panic
      ELSE Ok([k \in 1..Len(vals.v) |->
                 IF validity(a).some /\ ~validity(a).v[k] THEN None
                 ELSE Some(vals.v[k])])

\* GeometryArrayTrait::iter: the scalar of every slot (by its index), None
\* for a null slot.
iter(a) == [k \in 1..len(a) |-> IF is_null(a, k - 1) THEN None ELSE Some(k - 1)]

\* Iterator::flatten over Option items: the Some payloads in order.
flatten(items) ==
  LET present == SelectSeq(items, IsSome)
  IN  [k \in 1..Len(present) |-> present[k].v]

\* rstar_tree, loading every slot without looking at the validity.
rstar_tree_all_slots(a) == [k \in 1..len(a) |-> k - 1]

\* rstar_tree: RTree::bulk_load of the non-null scalars; the tree is modelled
\* by the entries loaded into it.
rstar_tree(a) == flatten(iter(a))

\* ---------------------------------------------------- element-wise algorithms

\* geo's HasDimensions::is_empty of a multipoint: it has no points.
geo_is_empty(g) == Len(g) = 0

BooleanArray(items) == [tag |-> "boolean_array", items |-> items]

\* is_empty, pushing a value for every slot whatever its validity.
is_empty_all_valid(a) ==
  LET it == iter_geo_values(a)
  IN  IF it.tag = "panic" THEN Panic
      ELSE BooleanArray([k \in 1..Len(it.v) |-> Some(geo_is_empty(it.v[k]))])

\* HasDimensions::is_empty of an array: one Option<bool> pushed per item of
\* iter_geo, into a boolean array of the same capacity.
is_empty(a) ==
  LET it == iter_geo(a)
  IN  IF it.tag = "panic" THEN Panic
      ELSE BooleanArray([k \in 1..Len(it.v) |->
                           IF it.v[k].some THEN Some(geo_is_empty(it.v[k].v))
                           ELSE None])

\* LineStringArray has the layout of MultiPointArray: coords, geom_offsets
\* and validity.
LineStringArray(O, coords, geom_offsets, validity_) ==
  [tag |-> "linestring_array", O |-> O, coords |-> coords,
   geom_offsets |-> geom_offsets, validity |-> validity_]

\* LineStringArray::new: the same validation as MultiPointArray::new.
LineStringArray_new(O, coords, geom_offsets, validity_) ==
  IF check(coords, validity_len_of(validity_), geom_offsets).tag = "ok"
  THEN LineStringArray(O, coords, geom_offsets, validity_)
  ELSE Panic

\* From<Vec<Option<geo::LineString>>> for LineStringArray.
LineStringArray_from_geo(O, geoms) ==
  LET r == from_geo(O, geoms)
  IN  IF r.tag = "array"
      THEN LineStringArray(r.O, r.coords, r.geom_offsets, r.validity)
      ELSE Panic

\* The largest n_iterations the callers pass.
MaxIterations == 1

\* One smoothing iteration doubles the number of vertices.
chaikin_iteration(g) == [k \in 1..(2 * Len(g)) |-> g[(k + 1) \div 2]]

RECURSIVE geo_chaikin_smoothing(_, _)
\* geo's ChaikinSmoothing::chaikin_smoothing of one geometry.
geo_chaikin_smoothing(g, n) ==
  IF n = 0 THEN g ELSE geo_chaikin_smoothing(chaikin_iteration(g), n - 1)

\* ChaikinSmoothing::chaikin_smoothing of an array: each item of iter_geo
\* mapped through the per-geometry smoothing, collected and converted back
\* into an array.
chaikin_smoothing(a, n_iterations) ==
  LET it == iter_geo(a)
  IN  IF it.tag = "panic" THEN Panic
      ELSE LineStringArray_from_geo(a.O,
             [k \in 1..Len(it.v) |->
                IF it.v[k].some
                THEN Some(geo_chaikin_smoothing(it.v[k].v, n_iterations))
                ELSE None])

\* ------------------------------------------------------------- conversions

CoordTypes == {"Interleaved", "Separated"}

\* A coordinate of the model stands for the pair (x, y) = (c, 1 - c).
x_of(c) == c
y_of(c) == 1 - c
coord_of(x, y) == CHOOSE c \in CoordVals : x_of(c) = x /\ y_of(c) = y

\* The physical buffer of a coordinate sequence in one layout: x and y
\* alternating in one buffer, or one buffer for x and one for y.
coord_buffer(coords, coord_type) ==
  IF coord_type = "Interleaved"
  THEN [type |-> "Interleaved",
        coords |-> [k \in 1..(2 * Len(coords)) |->
                      IF k % 2 = 1 THEN x_of(coords[(k + 1) \div 2])
                      ELSE y_of(coords[k \div 2])]]
  ELSE [type |-> "Separated",
        x |-> [k \in 1..Len(coords) |-> x_of(coords[k])],
        y |-> [k \in 1..Len(coords) |-> y_of(coords[k])]]

\* The coordinates a physical buffer holds, in index order.
buffer_coords(buf) ==
  IF buf.type = "Interleaved"
  THEN [k \in 1..(Len(buf.coords) \div 2) |->
          coord_of(buf.coords[2 * k - 1], buf.coords[2 * k])]
  ELSE [k \in 1..Len(buf.x) |-> coord_of(buf.x[k], buf.y[k])]

\* CoordBuffer::into_coord_type: the same coordinates laid out as coord_type.
coords_into_coord_type(coords, coord_type) ==
  buffer_coords(coord_buffer(coords, coord_type))

\* into_coord_type: a new array over the converted coordinates.
into_coord_type(a, coord_type) ==
  new(a.O, coords_into_coord_type(a.coords, coord_type), a.geom_offsets,
      a.validity)

\* From<MultiPointArray<O>> for LineStringArray<O>.
LineStringArray_from(value_) ==
  LineStringArray_new(value_.O, value_.coords, value_.geom_offsets, value_.validity)

\* ------------------------------------------------------------- from points

\* PointArray: one coordinate per slot and an optional validity bitmap.
PointArray(coords, validity_) == [coords |-> coords, validity |-> validity_]

\* PointArray::len
point_len(value_) == Len(value_.coords)

\* Offsets::try_push_usize: appends last + length, or Overflow when the sum
\* does not fit the offset type.
try_push_usize(O, offsets, length) ==
  IF O = "i32" /\ Last(offsets) + length > NarrowMax THEN Err("Overflow")
  ELSE Ok(Append(offsets, Last(offsets) + length))

RECURSIVE push_ones(_, _, _)
\* The loop of TryFrom<PointArray>: n pushes of length 1, stopping at the
\* first error.
push_ones(O, offsets, n) ==
  IF n = 0 THEN Ok(offsets)
  ELSE LET r == try_push_usize(O, offsets, 1)
       IN  IF r.tag = "err" THEN r ELSE push_ones(O, r.v, n - 1)

\* TryFrom<PointArray>, pushing one offset fewer than there are points.
try_from_points_one_short(O, value_) ==
  LET geom_offsets == push_ones(O, <<0>>,
                        IF point_len(value_) = 0 THEN 0
                        ELSE point_len(value_) - 1)
  IN  IF geom_offsets.tag = "err" THEN geom_offsets
      ELSE LET a == new(O, value_.coords, geom_offsets.v, value_.validity)
           IN  IF a.tag = "panic" THEN Panic ELSE Ok(a)

\* TryFrom<PointArray> for MultiPointArray<O>: one offset pushed per
\* coordinate, then new over the point array's coords and validity.
try_from_points(O, value_) ==
  LET geom_offsets == push_ones(O, <<0>>, Len(value_.coords))
  IN  IF geom_offsets.tag = "err" THEN geom_offsets
      ELSE LET a == new(O, value_.coords, geom_offsets.v, value_.validity)
           IN  IF a.tag = "panic" THEN Panic ELSE Ok(a)

\* ------------------------------------------------------- width conversion

\* From<&OffsetsBuffer<i32>> for OffsetsBuffer<i64>: every entry cast to i64.
widen_offsets(offs) == [k \in 1..Len(offs) |-> offs[k]]

\* TryFrom<&OffsetsBuffer<i64>> for OffsetsBuffer<i32>: the last (largest)
\* entry must fit the narrow type, then every entry is cast.
narrow_offsets(offs) ==
  IF Last(offs) > NarrowMax
  THEN Err("Overflow")
  ELSE Ok([k \in 1..Len(offs) |-> AsNarrow(offs[k])])

\* From<MultiPointArray<C, i32>> for MultiPointArray<C, i64>
widen(a) == new("i64", a.coords, widen_offsets(a.geom_offsets), a.validity)

\* TryFrom<MultiPointArray<C, i64>> for MultiPointArray<C, i32>
narrow(a) ==
  LET o == narrow_offsets(a.geom_offsets)
  IN  IF o.tag = "err" THEN o
      ELSE LET r == new("i32", a.coords, o.v, a.validity)
           IN  IF r.tag = "panic" THEN Panic ELSE Ok(r)

\* --------------------------------------------------------- WKB multipolygon

HEADER_BYTES == 5

\* The bytes of a coordinate (two f64) in the buffers handed to the reader.
COORD_BYTES == 16

\* read_u32 decoding big-endian whatever the declared byte order.
read_u32_big_endian(buf, pos, byte_order) ==
  IF pos + 4 > Len(buf)
  THEN Err("UnexpectedEof")
  ELSE LET b(k) == buf[pos + k]
       IN  Ok(b(1) * 16777216 + b(2) * 65536 + b(3) * 256 + b(4))

\* ReadBytesExt::read_u32 on a Cursor at position pos.
read_u32(buf, pos, byte_order) ==
  IF pos + 4 > Len(buf)
  THEN Err("UnexpectedEof")
  ELSE LET b(k) == buf[pos + k]
       IN  IF byte_order = "BigEndian"
           THEN Ok(b(1) * 16777216 + b(2) * 65536 + b(3) * 256 + b(4))
           ELSE Ok(b(4) * 16777216 + b(3) * 65536 + b(2) * 256 + b(1))

\* WKBLinearRing::new: reads the ring's point count at its offset.
WKBLinearRing_new(buf, byte_order, offset) ==
  LET n == read_u32(buf, offset, byte_order)
  IN  IF n.tag = "err" THEN Panic
      ELSE [tag |-> "ring", offset |-> offset, num_points |-> n.v]

\* WKBLinearRing::size: the count field and the coordinates.
ring_size(r) == 4 + COORD_BYTES * r.num_points

RECURSIVE wkb_rings(_, _, _, _, _)
wkb_rings(buf, byte_order, ring_offset, n, acc) ==
  IF n = 0 THEN [tag |-> "rings", rings |-> acc, end |-> ring_offset]
  ELSE LET r == WKBLinearRing_new(buf, byte_order, ring_offset)
       IN  IF r.tag = "panic" THEN Panic
           ELSE wkb_rings(buf, byte_order, ring_offset + ring_size(r), n - 1,
                          Append(acc, r))

\* WKBPolygon::new: reads the ring count after the polygon's own header and
\* walks its rings once.
WKBPolygon_new(buf, byte_order, offset) ==
  LET n == read_u32(buf, offset + HEADER_BYTES, byte_order)
  IN  IF n.tag = "err" THEN Panic
      ELSE LET rs == wkb_rings(buf, byte_order, offset + 1 + 4 + 4, n.v, <<>>)
           IN  IF rs.tag = "panic" THEN Panic
               ELSE [tag |-> "polygon", offset |-> offset,
                     wkb_linear_rings |-> rs.rings,
                     size |-> rs.end - offset]

\* WKBPolygon::size
polygon_size(p) == p.size

\* The loop of WKBMultiPolygon::new.
RECURSIVE wkb_polygons_from(_, _, _, _, _)
wkb_polygons_from(buf, byte_order, polygon_offset, n, acc) ==
  IF n = 0 THEN [tag |-> "wkb", wkb_polygons |-> acc]
  ELSE LET polygon == WKBPolygon_new(buf, byte_order, polygon_offset)
       IN  IF polygon.tag = "panic" THEN Panic
           ELSE wkb_polygons_from(buf, byte_order,
                                  polygon_offset + polygon_size(polygon),
                                  n - 1, Append(acc, polygon))

WKBMultiPolygon_new(buf, byte_order) ==
  LET num_polygons == read_u32(buf, HEADER_BYTES, byte_order)
  IN  IF num_polygons.tag = "err" THEN Panic
      ELSE wkb_polygons_from(buf, byte_order, 1 + 4 + 4, num_polygons.v, <<>>)

num_polygons(m) == Len(m.wkb_polygons)

\* MultiPolygonTrait::polygon; indexing the Vec out of bounds panics.
polygon(m, i) ==
  IF i > num_polygons(m) THEN Ok(None)
  ELSE IF i < Len(m.wkb_polygons) THEN Ok(Some(m.wkb_polygons[i + 1]))
  ELSE Panic

\* MultiPolygonTrait::polygons is todo!().
polygons(m) == Panic

\* --------------------------------------------------------------- WKB inputs

\* The bytes of a u32 in the given byte order.
u32_bytes(n, byte_order) ==
  LET be == <<(n \div 16777216) % 256, (n \div 65536) % 256,
              (n \div 256) % 256, n % 256>>
  IN  IF byte_order = "BigEndian" THEN be
      ELSE <<be[4], be[3], be[2], be[1]>>

order_byte(byte_order) == IF byte_order = "BigEndian" THEN 0 ELSE 1

\* A linear ring of n points, every coordinate byte 1.
EncRing(n, byte_order) ==
  u32_bytes(n, byte_order) \o [k \in 1..(COORD_BYTES * n) |-> 1]

\* A polygon (type code 3) given the point counts of its rings.
EncPolygon(rings, byte_order) ==
  <<order_byte(byte_order)>> \o u32_bytes(3, byte_order)
    \o u32_bytes(Len(rings), byte_order)
    \o Concat([k \in 1..Len(rings) |-> EncRing(rings[k], byte_order)])

\* A multipolygon (type code 6) declaring `count` polygons.
EncMultiPolygon(polys, count, byte_order) ==
  <<order_byte(byte_order)>> \o u32_bytes(6, byte_order)
    \o u32_bytes(count, byte_order)
    \o Concat([k \in 1..Len(polys) |-> EncPolygon(polys[k], byte_order)])

\* Most polygons in a buffer handed to the reader.
MaxPolys == 2

\* A polygon's rings, by point count: no ring, an empty ring, a ring of one
\* point, an empty ring and a ring of one point.
PolyShapes == {<<>>, <<0>>, <<1>>, <<0, 1>>}

\* Buffers handed to WKBMultiPolygon::new: well-formed ones, every truncation
\* of them, and ones declaring one polygon more than they hold.
WkbInput(ps, d, bo, cut) ==
  LET whole == EncMultiPolygon(ps, Len(ps) + d, bo)
  IN  [buf |-> SubSeq(whole, 1, cut), byte_order |-> bo, polys |-> ps,
       declared |-> Len(ps) + d, whole |-> (cut = Len(whole))]

WkbInputs ==
  UNION {{WkbInput(ps, d, bo, cut) :
            cut \in 0..Len(EncMultiPolygon(ps, Len(ps) + d, bo))} :
     ps \in SeqsUpTo(PolyShapes, MaxPolys),
     d \in {0, 1},
     bo \in {"BigEndian", "LittleEndian"}}

\* ---------------------------------------------------------- polygon scalar

\* The width of usize in the model.
UsizeBits == 4

\* a - b on usize: with overflow checks a negative difference panics,
\* without them it wraps.
usize_sub(a, b, overflow_checks) ==
  IF a >= b THEN Ok(a - b)
  ELSE IF overflow_checks THEN Panic
  ELSE Ok(a - b + Pow2(UsizeBits))

\* scalar::Polygon: the ring range of geometry geom_index of a polygon array.
PolygonScalar(coords, geom_offsets, ring_offsets, geom_index) ==
  [tag |-> "polygon_scalar", coords |-> coords, geom_offsets |-> geom_offsets,
   ring_offsets |-> ring_offsets, geom_index |-> geom_index]

\* scalar::LineString::new: the ring geom_index over the same buffers.
LineString_new(coords, geom_offsets, geom_index) ==
  [tag |-> "linestring", coords |-> coords, geom_offsets |-> geom_offsets,
   geom_index |-> geom_index]

\* PolygonTrait::exterior
exterior(p) ==
  LET se == start_end(p.geom_offsets, p.geom_index)
  IN  IF se[1] = se[2] THEN None
      ELSE Some(LineString_new(p.coords, p.ring_offsets, se[1]))

\* PolygonTrait::num_interiors: end - start - 1
num_interiors(p, overflow_checks) ==
  LET se == start_end(p.geom_offsets, p.geom_index)
  IN  usize_sub(se[2] - se[1], 1, overflow_checks)

\* PolygonTrait::interior
interior(p, i, overflow_checks) ==
  LET se == start_end(p.geom_offsets, p.geom_index)
      n == usize_sub(se[2] - se[1], 1, overflow_checks)
  IN  IF n.tag = "panic" THEN Panic
      ELSE IF i > n.v THEN Ok(None)
      ELSE Ok(Some(LineString_new(p.coords, p.ring_offsets, se[1] + 1 + i)))

\* ------------------------------------------------------------------- state

VARIABLES
  arr,    \* the MultiPointArray the program holds, or NoArray
  mp,     \* the WKBMultiPolygon the program holds, or NoWkb
  pg,     \* the Polygon scalar the program holds, or NoPolygon
  res,    \* what the last operation returned
  last    \* the last operation, its arguments and the array it was called on

vars == <<arr, mp, pg, res, last>>

NoArray == [tag |-> "none"]
NoWkb == [tag |-> "none"]
NoPolygon == [tag |-> "none"]

\* The parts a caller may hand to a constructor: any coordinate buffer, any
\* OffsetsBuffer<O> and any optional bitmap within the bounds.
Inputs ==
  {[O |-> O, coords |-> c, geom_offsets |-> g, validity |-> v] :
     O \in {"i32", "i64"},
     c \in SeqsUpTo(CoordVals, MaxCoords),
     g \in {s \in SeqsUpTo(0..MaxCoords, MaxGeoms + 1) : IsOffsets(s, "i64")},
     v \in {None} \cup {Some(b) : b \in SeqsUpTo(BOOLEAN, MaxGeoms)}}

\* Longest vector of optional multipoints handed to the conversion.
MaxVec == 3

\* The vectors of optional multipoints a caller may convert.
GeoVecs ==
  {g \in SeqsUpTo({None} \cup {Some(m) : m \in SeqsUpTo(CoordVals, MaxCoords)},
                  MaxVec) : Len(mutable_coords(g)) <= MaxCoords}

TypedInputs == {x \in Inputs : IsOffsets(x.geom_offsets, x.O)}

\* The (offset, length) pairs a caller passes to slice and owned_slice: all
\* that are in range, and those one past the end.
SliceArgs(a) ==
  {p \in (0..(len(a) + 1)) \X (0..(len(a) + 1)) : p[1] + p[2] <= len(a) + 1}

\* Point arrays handed to the conversion: any coordinates, with no bitmap or
\* one bit per point.
PointArrays ==
  UNION {{PointArray(cs, None)}
           \cup {PointArray(cs, Some(bits)) :
                   bits \in [1..Len(cs) -> BOOLEAN]} :
         cs \in SeqsUpTo(CoordVals, MaxCoords)}

\* Most rings in the polygon array a scalar is taken from.
MaxRings == 3

\* Polygon scalars of well-formed polygon arrays: rings of one coordinate,
\* geometry offsets from 0 to the ring count, any geometry of the array.
PolygonScalars ==
  UNION {{PolygonScalar([k \in 1..Last(g) |-> 0], g,
                        [k \in 1..(Last(g) + 1) |-> k - 1], i) :
            i \in 0..(Len(g) - 2)} :
         g \in {s \in SeqsUpTo(0..MaxRings, MaxGeoms + 1) :
                  /\ Len(s) >= 2 /\ s[1] = 0
                  /\ \A k \in 1..(Len(s) - 1) : s[k] <= s[k + 1]}}

Init ==
  /\ arr = NoArray
  /\ mp = NoWkb
  /\ pg = NoPolygon
  /\ res = Unit
  /\ last = [op |-> "init"]

Alive == res.tag # "panic"

\* The calls that return a value and leave the array as it was.
Reads == {"owned_slice", "iter_geo", "rstar_tree", "is_empty"}

\* The program holds an array and goes on from it. What may follow a call
\* that left the array as it was may follow the state before that call, and
\* is explored from there.
Held == Alive /\ arr.tag = "array" /\ last.op \notin Reads

\* MultiPointArray::new on parts chosen by the caller.
New ==
  /\ last.op = "init"
  /\ \E x \in TypedInputs :
       LET r == new(x.O, x.coords, x.geom_offsets, x.validity)
       IN  /\ res' = r
           /\ arr' = IF r.tag = "array" THEN r ELSE NoArray
           /\ last' = [op |-> "new", input |-> x]
  /\ UNCHANGED <<mp, pg>>

\* MultiPointArray::try_new on parts chosen by the caller.
TryNew ==
  /\ last.op = "init"
  /\ \E x \in TypedInputs :
       LET r == try_new(x.O, x.coords, x.geom_offsets, x.validity)
       IN  /\ res' = r
           /\ arr' = IF r.tag = "ok" THEN r.v ELSE NoArray
           /\ last' = [op |-> "try_new", input |-> x]
  /\ UNCHANGED <<mp, pg>>

\* MultiPointArray::from(vec) on a vector of optional multipoints.
FromGeo ==
  /\ last.op = "init"
  /\ \E O \in {"i32", "i64"}, g \in GeoVecs :
       LET r == from_geo(O, g)
       IN  /\ res' = r
           /\ arr' = IF r.tag = "array" THEN r ELSE NoArray
           /\ last' = [op |-> "from_geo", O |-> O, input |-> g]
  /\ UNCHANGED <<mp, pg>>

\* arr.slice(offset, length): in place.
Slice ==
  /\ Held
  /\ \E p \in SliceArgs(arr) :
       LET r == slice(arr, p[1], p[2])
       IN  /\ res' = IF r.tag = "panic" THEN Panic ELSE Unit
           /\ arr' = IF r.tag = "panic" THEN arr ELSE r
           /\ last' = [op |-> "slice", offset |-> p[1], length |-> p[2],
                       self |-> arr]
  /\ UNCHANGED <<mp, pg>>

\* arr.owned_slice(offset, length): returns a new array, arr is borrowed.
OwnedSlice ==
  /\ Held
  /\ \E p \in SliceArgs(arr) :
       /\ res' = owned_slice(arr, p[1], p[2])
       /\ last' = [op |-> "owned_slice", offset |-> p[1], length |-> p[2],
                   self |-> arr]
  /\ UNCHANGED <<arr, mp, pg>>

\* let sliced = arr.owned_slice(..): the program goes on with the result.
TakeResult ==
  /\ last.op = "owned_slice" /\ res.tag = "array"
  /\ arr' = res
  /\ res' = Unit
  /\ last' = [op |-> "take"]
  /\ UNCHANGED <<mp, pg>>

\* arr.into() from i32 to i64 offsets: consumes arr.
Widen ==
  /\ Held /\ arr.O = "i32"
  /\ LET r == widen(arr)
     IN  /\ res' = r
         /\ arr' = IF r.tag = "array" THEN r ELSE NoArray
  /\ last' = [op |-> "widen", self |-> arr, sliced |-> last.op = "slice"]
  /\ UNCHANGED <<mp, pg>>

\* arr.try_into() from i64 to i32 offsets: consumes arr.
Narrow ==
  /\ Held /\ arr.O = "i64"
  /\ LET r == narrow(arr)
     IN  /\ res' = r
         /\ arr' = IF r.tag = "ok" THEN r.v ELSE NoArray
  /\ last' = [op |-> "narrow", self |-> arr]
  /\ UNCHANGED <<mp, pg>>

\* arr.iter_geo().collect()
IterGeo ==
  /\ Held
  /\ res' = iter_geo(arr)
  /\ last' = [op |-> "iter_geo", self |-> arr,
              from |-> IF last.op = "from_geo" THEN Some(last.input) ELSE None]
  /\ UNCHANGED <<arr, mp, pg>>

\* arr.rstar_tree()
RstarTree ==
  /\ Held
  /\ res' = Ok(rstar_tree(arr))
  /\ last' = [op |-> "rstar_tree", self |-> arr]
  /\ UNCHANGED <<arr, mp, pg>>

\* arr.is_empty()
IsEmpty ==
  /\ Held
  /\ res' = is_empty(arr)
  /\ last' = [op |-> "is_empty", self |-> arr]
  /\ UNCHANGED <<arr, mp, pg>>

\* arr = arr.into_coord_type(coord_type)
IntoCoordType ==
  /\ Held
  /\ \E coord_type \in CoordTypes :
       LET r == into_coord_type(arr, coord_type)
       IN  /\ res' = r
           /\ arr' = IF r.tag = "array" THEN r ELSE NoArray
           /\ last' = [op |-> "into_coord_type", self |-> arr,
                       coord_type |-> coord_type, sliced |-> last.op = "slice"]
  /\ UNCHANGED <<mp, pg>>

\* LineStringArray::from(arr): the array is moved into the result.
ToLineString ==
  /\ Held
  /\ res' = LineStringArray_from(arr)
  /\ arr' = NoArray
  /\ last' = [op |-> "to_linestring", self |-> arr, sliced |-> last.op = "slice"]
  /\ UNCHANGED <<mp, pg>>

\* chaikin_smoothing(n_iterations) of the line string array just converted.
Chaikin ==
  /\ last.op = "to_linestring" /\ res.tag = "linestring_array"
  /\ \E n_iterations \in 0..MaxIterations :
       /\ res' = chaikin_smoothing(res, n_iterations)
       /\ last' = [op |-> "chaikin_smoothing", self |-> res,
                   n_iterations |-> n_iterations]
  /\ UNCHANGED <<arr, mp, pg>>

\* MultiPointArray::<O>::try_from(point_array)
FromPoints ==
  /\ last.op = "init"
  /\ \E O \in {"i32", "i64"}, value_ \in PointArrays :
       LET r == try_from_points(O, value_)
       IN  /\ res' = r
           /\ arr' = IF r.tag = "ok" THEN r.v ELSE NoArray
           /\ last' = [op |-> "from_points", O |-> O, input |-> value_]
  /\ UNCHANGED <<mp, pg>>

\* WKBMultiPolygon::new on a buffer chosen by the caller.
WkbNew ==
  /\ last.op = "init"
  /\ \E x \in WkbInputs :
       LET r == WKBMultiPolygon_new(x.buf, x.byte_order)
       IN  /\ res' = r
           /\ mp' = IF r.tag = "wkb" THEN r ELSE NoWkb
           /\ last' = [op |-> "wkb_new", input |-> x]
  /\ UNCHANGED <<arr, pg>>

\* mp.polygon(i)
Polygon ==
  /\ Alive /\ mp.tag = "wkb"
  /\ \E i \in 0..(num_polygons(mp) + 2) :
       /\ res' = polygon(mp, i)
       /\ last' = [op |-> "polygon", i |-> i]
  /\ UNCHANGED <<arr, mp, pg>>

\* mp.polygons()
Polygons ==
  /\ Alive /\ mp.tag = "wkb"
  /\ res' = polygons(mp)
  /\ last' = [op |-> "polygons"]
  /\ UNCHANGED <<arr, mp, pg>>

\* array.value(geom_index) of a polygon array: the scalar the caller holds.
PolygonValue ==
  /\ last.op = "init"
  /\ \E p \in PolygonScalars :
       /\ pg' = p
       /\ last' = [op |-> "polygon_value", input |-> p]
  /\ UNCHANGED <<arr, mp, res>>

\* pg.exterior()
Exterior ==
  /\ Alive /\ pg.tag = "polygon_scalar"
  /\ res' = Ok(exterior(pg))
  /\ last' = [op |-> "exterior"]
  /\ UNCHANGED <<arr, mp, pg>>

\* pg.num_interiors(), in a build with or without overflow checks
NumInteriors ==
  /\ Alive /\ pg.tag = "polygon_scalar"
  /\ \E overflow_checks \in BOOLEAN :
       /\ res' = num_interiors(pg, overflow_checks)
       /\ last' = [op |-> "num_interiors", overflow_checks |-> overflow_checks]
  /\ UNCHANGED <<arr, mp, pg>>

\* pg.interior(i), in a build with or without overflow checks
Interior ==
  /\ Alive /\ pg.tag = "polygon_scalar"
  /\ \E overflow_checks \in BOOLEAN,
        i \in 0..(len_proxy(pg.ring_offsets) + 1) :
       /\ res' = interior(pg, i, overflow_checks)
       /\ last' = [op |-> "interior", i |-> i,
                   overflow_checks |-> overflow_checks]
  /\ UNCHANGED <<arr, mp, pg>>

Next ==
  \/ New
  \/ TryNew
  \/ FromGeo
  \/ Slice
  \/ OwnedSlice
  \/ TakeResult
  \/ Widen
  \/ Narrow
  \/ IterGeo
  \/ FromPoints
  \/ RstarTree
  \/ IsEmpty
  \/ IntoCoordType
  \/ ToLineString
  \/ Chaikin
  \/ WkbNew
  \/ Polygon
  \/ Polygons
  \/ PolygonValue
  \/ Exterior
  \/ NumInteriors
  \/ Interior

Spec == Init /\ [][Next]_vars

\* ------------------------------------------------------------------ claims

InRange(a, offset, length) == offset + length <= len(a)

\* C1: after an in-range A.slice(offset, len) the array has len() == len and
\* its get(i) (value and null-ness) equals A.get(offset + i) for 0 <= i < len.
C1_SliceGet ==
  (last.op = "slice" /\ InRange(last.self, last.offset, last.length)) =>
    /\ res = Unit
    /\ len(arr) = last.length
    /\ \A i \in 0..(last.length - 1) :
         get(arr, i) = get(last.self, last.offset + i)

\* A slice that starts inside the array and keeps a null slot and a geometry
\* with coordinates.
C1_Witness ==
  /\ last.op = "slice" /\ res = Unit
  /\ last.offset >= 1 /\ last.length >= 2
  /\ \E i \in 0..(len(arr) - 1) : is_null(arr, i)
  /\ \E i \in 0..(len(arr) - 1) :
       ~is_null(arr, i) /\ get(arr, i).v.tag = "ok" /\ get(arr, i).v.v # <<>>

\* owned_slice agrees with slice: same length, same get(i) at every index.
SameAsSlice(a, offset, length, r) ==
  /\ r.tag = "array"
  /\ len(r) = len(slice(a, offset, length))
  /\ \A i \in 0..(len(r) - 1) : get(r, i) = get(slice(a, offset, length), i)

\* C2, as stated: for every in-range offset, len (len == 0 and the empty
\* array included) A.owned_slice(offset, len) returns an array whose length
\* and get(i) are those of A.slice(offset, len).
C2_OwnedSliceAsStated ==
  (last.op = "owned_slice" /\ InRange(last.self, last.offset, last.length)) =>
    SameAsSlice(last.self, last.offset, last.length, res)

\* C2, amended: for every in-range offset, len with len >= 1,
\* A.owned_slice(offset, len) returns an array whose length and get(i) are
\* those of A.slice(offset, len); with len == 0 owned_slice panics.
C2_OwnedSliceFromOne ==
  (last.op = "owned_slice" /\ InRange(last.self, last.offset, last.length)) =>
    IF last.length >= 1
    THEN SameAsSlice(last.self, last.offset, last.length, res)
    ELSE res = Panic

\* An owned slice that starts inside the array and holds a null slot and a
\* geometry with coordinates.
C2_Witness ==
  /\ last.op = "owned_slice" /\ res.tag = "array"
  /\ last.offset >= 1 /\ last.length >= 2
  /\ \E i \in 0..(len(res) - 1) : is_null(res, i)
  /\ \E i \in 0..(len(res) - 1) :
       ~is_null(res, i) /\ get(res, i).v.tag = "ok" /\ get(res, i).v.v # <<>>

\* C3: owned_slice(offset, len) returns an array whose offsets start at 0,
\* whose last offset is its coordinate buffer length, and that length is the
\* number of coordinates of the requested geometries; the source array is as
\* it was before the call.
C3_OwnedSliceCompact ==
  (last.op = "owned_slice" /\ InRange(last.self, last.offset, last.length)
     /\ last.length >= 1) =>
    /\ res.tag = "array"
    /\ res.geom_offsets[1] = 0
    /\ Last(res.geom_offsets) = Len(res.coords)
    /\ Len(res.coords) =
         last.self.geom_offsets[last.offset + last.length + 1]
           - last.self.geom_offsets[last.offset + 1]
    /\ arr = last.self

\* An owned slice of an array that is itself sliced, leaving out coordinates
\* on both sides.
C3_Witness ==
  /\ last.op = "owned_slice" /\ res.tag = "array"
  /\ last.self.geom_offsets[1] > 0
  /\ last.offset >= 1
  /\ Len(res.coords) >= 1
  /\ Len(res.coords) < Len(arr.coords)

NonDecreasing(s) == \A i \in 1..(Len(s) - 1) : s[i] <= s[i + 1]

\* C4: in every reachable MultiPointArray the validity bitmap, if present,
\* has length len(), the last geometry offset equals the coordinate buffer
\* length, and the geometry offsets are non-decreasing.
C4_ArrayInvariants ==
  arr.tag = "array" =>
    /\ arr.validity.some => Len(arr.validity.v) = len(arr)
    /\ Last(arr.geom_offsets) = Len(arr.coords)
    /\ NonDecreasing(arr.geom_offsets)

Accepts(x) ==
  /\ ~x.validity.some \/ Len(x.validity.v) = Len(x.geom_offsets) - 1
  /\ Last(x.geom_offsets) = Len(x.coords)

HoldsInput(a, x) ==
  /\ a.coords = x.coords
  /\ a.geom_offsets = x.geom_offsets
  /\ a.validity = x.validity

\* C5: new and try_new run the same validation: try_new returns an error
\* exactly when new panics; both accept exactly when the validity is absent
\* or as long as geom_offsets minus one, and the last offset is coords.len();
\* an accepted array holds the three inputs unchanged.
C5_SameValidation ==
  /\ last.op = "new" =>
       LET x == last.input
           t == try_new(x.O, x.coords, x.geom_offsets, x.validity)
       IN  /\ (res = Panic) <=> (t.tag = "err")
           /\ (res = Panic) <=> ~Accepts(x)
           /\ Accepts(x) => (res.tag = "array" /\ HoldsInput(res, x))
  /\ last.op = "try_new" =>
       LET x == last.input
           n == new(x.O, x.coords, x.geom_offsets, x.validity)
       IN  /\ (res.tag = "err") <=> (n = Panic)
           /\ (res.tag = "err") <=> ~Accepts(x)
           /\ Accepts(x) => (res.tag = "ok" /\ HoldsInput(res.v, x))

\* try_new rejects a bitmap one bit longer than the array, the offsets
\* matching the coordinates.
C5_Witness ==
  /\ last.op = "try_new" /\ res.tag = "err"
  /\ last.input.validity.some
  /\ Len(last.input.validity.v) = Len(last.input.geom_offsets)
  /\ Last(last.input.geom_offsets) = Len(last.input.coords)

\* C6: polygon(i) returns the i-th polygon view when i < num_polygons(),
\* none for every i >= num_polygons() (i == num_polygons() included), and
\* never panics.
C6_PolygonBounds ==
  last.op = "polygon" =>
    /\ res # Panic
    /\ last.i < num_polygons(mp) => res = Ok(Some(mp.wkb_polygons[last.i + 1]))
    /\ last.i >= num_polygons(mp) => res = Ok(None)

\* A buffer shorter than the 9-byte header, or one whose declared polygon
\* count its remaining bytes cannot hold.
Malformed(x) ==
  \/ Len(x.buf) < 1 + 4 + 4
  \/ ~x.whole
  \/ x.declared > Len(x.polys)

\* C7: WKBMultiPolygon::new on a malformed buffer reports a recoverable parse
\* error and never panics.
C7_MalformedIsError ==
  (last.op = "wkb_new" /\ Malformed(last.input)) => res.tag = "err"

\* C8: polygons() terminates and yields exactly num_polygons() polygon views
\* in index order, the k-th equal to polygon(k).
C8_PolygonsIterates ==
  last.op = "polygons" =>
    /\ res.tag = "ok"
    /\ Len(res.v) = num_polygons(mp)
    /\ \A k \in 0..(num_polygons(mp) - 1) : polygon(mp, k) = Ok(Some(res.v[k + 1]))

\* C9: widening i32 offsets to i64 always succeeds and keeps every offset,
\* the coordinates and the validity; narrowing returns an overflow error when
\* an offset exceeds the narrow range, and otherwise widening followed by
\* narrowing yields the original array.
C9_WidthConversion ==
  /\ last.op = "widen" =>
       /\ res.tag = "array"
       /\ res.O = "i64"
       /\ res.geom_offsets = last.self.geom_offsets
       /\ res.coords = last.self.coords
       /\ res.validity = last.self.validity
       /\ narrow(res) = Ok(last.self)
  /\ last.op = "narrow" =>
       IF \E k \in 1..Len(last.self.geom_offsets) :
            last.self.geom_offsets[k] > NarrowMax
       THEN res = Err("Overflow")
       ELSE res.tag = "ok"

\* The vector [Some(MultiPoint[(0,0),(1,1)]), None, Some(MultiPoint[])].
Scenario == <<Some(<<0, 1>>), None, Some(<<>>)>>

\* C10: the array built from a vector of optional multipoints keeps nullity
\* and emptiness apart: a slot is null exactly where the vector holds None,
\* and an empty multipoint is a non-null slot with an offset range of zero
\* length.  From the scenario vector: len() == 3, is_null(1), and get(2) is
\* Some of an empty multipoint.
C10_NullVersusEmpty ==
  (last.op = "from_geo" /\ res.tag = "array") =>
    /\ len(arr) = Len(last.input)
    /\ \A i \in 0..(Len(last.input) - 1) :
         /\ is_null(arr, i) <=> ~last.input[i + 1].some
         /\ last.input[i + 1] = Some(<<>>) =>
              /\ get(arr, i) = Some(Ok(<<>>))
              /\ start_end(arr.geom_offsets, i)[1]
                   = start_end(arr.geom_offsets, i)[2]
              /\ arr.validity.some => arr.validity.v[i + 1]
    /\ last.input = Scenario =>
         /\ len(arr) = 3
         /\ is_null(arr, 1)
         /\ ~is_null(arr, 2)
         /\ get(arr, 2) = Some(Ok(<<>>))

\* The scenario vector has been converted.
C10_Witness ==
  /\ last.op = "from_geo" /\ res.tag = "array"
  /\ last.input = Scenario
  /\ arr.validity = Some(<<TRUE, FALSE, TRUE>>)

\* The item iter_geo yields for an entry of the input vector.
AsItem(g) == IF g.some THEN Some(g.v) ELSE None

\* C11: the array built from a vector s of optional multipoints has
\* len() == |s| and iter_geo() yields exactly s in index order: None at each
\* null position, a value equal to the original elsewhere.
C11_GeoRoundTrip ==
  (last.op = "iter_geo" /\ last.from.some) =>
    /\ len(arr) = Len(last.from.v)
    /\ res = Ok([k \in 1..Len(last.from.v) |-> AsItem(last.from.v[k])])

\* iter_geo has run over an array built from a vector with a null entry, an
\* empty multipoint and a multipoint with points.
C11_Witness ==
  /\ last.op = "iter_geo" /\ last.from.some /\ res.tag = "ok"
  /\ \E k \in 1..Len(res.v) : ~res.v[k].some
  /\ \E k \in 1..Len(res.v) : res.v[k] = Some(<<>>)
  /\ \E k \in 1..Len(res.v) : res.v[k].some /\ Len(res.v[k].v) >= 2

NullSlots(a) == {i \in 0..(len(a) - 1) : is_null(a, i)}

\* C12: the index built by rstar_tree() holds exactly one entry for each
\* non-null slot and none for a null slot: its size is len() minus the number
\* of null slots.
C12_RTreeSkipsNulls ==
  last.op = "rstar_tree" =>
    /\ res.tag = "ok"
    /\ Len(res.v) = len(arr) - Cardinality(NullSlots(arr))
    /\ {res.v[k] : k \in 1..Len(res.v)} = (0..(len(arr) - 1)) \ NullSlots(arr)

\* A tree built from an array with a null slot and two non-null slots.
C12_Witness ==
  /\ last.op = "rstar_tree" /\ res.tag = "ok"
  /\ Cardinality(NullSlots(arr)) >= 1
  /\ Len(res.v) >= 2

\* Slot i of the result of an element-wise algorithm is null.
NullInResult(r, i) ==
  IF r.tag = "boolean_array" THEN ~r.items[i + 1].some ELSE is_null(r, i)

\* C13: is_empty and chaikin_smoothing return an array of the logical length
\* of their input with the same validity pattern: slot i of the output is
\* null exactly when slot i of the input is, and holds the per-geometry
\* result of input slot i otherwise.
C13_ElementWise ==
  /\ last.op = "is_empty" =>
       /\ res.tag = "boolean_array"
       /\ Len(res.items) = len(last.self)
       /\ \A i \in 0..(len(last.self) - 1) :
            /\ NullInResult(res, i) <=> is_null(last.self, i)
            /\ ~is_null(last.self, i) =>
                 res.items[i + 1] = Some(geo_is_empty(value(last.self, i).v))
  /\ (last.op = "chaikin_smoothing" /\ Alive) =>
       /\ res.tag = "linestring_array"
       /\ len(res) = len(last.self)
       /\ \A i \in 0..(len(last.self) - 1) :
            /\ NullInResult(res, i) <=> is_null(last.self, i)
            /\ ~is_null(last.self, i) =>
                 value(res, i) =
                   Ok(geo_chaikin_smoothing(value(last.self, i).v,
                                            last.n_iterations))

\* is_empty has run over an array with a null slot, an empty multipoint and
\* a multipoint with points.
C13_Witness ==
  /\ last.op = "is_empty" /\ res.tag = "boolean_array"
  /\ \E k \in 1..Len(res.items) : ~res.items[k].some
  /\ \E k \in 1..Len(res.items) : res.items[k] = Some(TRUE)
  /\ \E k \in 1..Len(res.items) : res.items[k] = Some(FALSE)

\* chaikin_smoothing has smoothed a line string next to a null slot.
C13_ChaikinReached ==
  /\ last.op = "chaikin_smoothing" /\ res.tag = "linestring_array"
  /\ last.n_iterations >= 1
  /\ \E i \in 0..(len(res) - 1) : is_null(res, i)
  /\ \E i \in 0..(len(res) - 1) : ~is_null(res, i) /\ Len(value(res, i).v) >= 2

\* A buffer holding exactly the polygons its header declares.
WellFormed(x) == x.whole /\ x.declared = Len(x.polys)

\* The bytes of sub-polygons 0..k-1 of an input.
BytesBefore(x, k) ==
  Len(Concat([j \in 1..k |-> EncPolygon(x.polys[j], x.byte_order)]))

\* C14: on a well-formed buffer new reads the polygon count from bytes 5..9
\* in the declared byte order, num_polygons() is the declared count, and the
\* k-th sub-polygon view starts at byte 9 plus the sizes of the sub-polygons
\* before it.
C14_WkbLayout ==
  (last.op = "wkb_new" /\ WellFormed(last.input)) =>
    /\ res.tag = "wkb"
    /\ num_polygons(res) = last.input.declared
    /\ num_polygons(res) =
         read_u32(last.input.buf, HEADER_BYTES, last.input.byte_order).v
    /\ \A k \in 0..(num_polygons(res) - 1) :
         /\ res.wkb_polygons[k + 1].offset = 1 + 4 + 4 + BytesBefore(last.input, k)
         /\ polygon_size(res.wkb_polygons[k + 1]) =
              Len(EncPolygon(last.input.polys[k + 1], last.input.byte_order))

\* new has parsed a little-endian buffer of two polygons, the first with a
\* ring that holds a point.
C14_Witness ==
  /\ last.op = "wkb_new" /\ WellFormed(last.input) /\ res.tag = "wkb"
  /\ last.input.byte_order = "LittleEndian"
  /\ num_polygons(res) = 2
  /\ res.wkb_polygons[2].offset > 1 + 4 + 4 + 1 + 4 + 4 + 4

\* C15: a PointArray of n points converts to a MultiPointArray of length n
\* with offsets 0, 1, ..., n and the same coords and validity; the conversion
\* fails, with an error, only when n does not fit the offset width.
C15_PointsToMultiPoints ==
  last.op = "from_points" =>
    LET n == point_len(last.input)
    IN  IF last.O = "i32" /\ n > NarrowMax
        THEN res = Err("Overflow")
        ELSE /\ res.tag = "ok"
             /\ res.v.tag = "array"
             /\ len(res.v) = n
             /\ res.v.geom_offsets = [k \in 1..(n + 1) |-> k - 1]
             /\ res.v.coords = last.input.coords
             /\ res.v.validity = last.input.validity

\* Two points, one of them null, have been converted.
C15_Witness ==
  /\ last.op = "from_points" /\ res.tag = "ok"
  /\ len(res.v) >= 2
  /\ \E i \in 0..(len(res.v) - 1) : is_null(res.v, i)
  /\ \E i \in 0..(len(res.v) - 1) : ~is_null(res.v, i)

\* The length and slots of the array a conversion returned are those of the
\* array it was called on.
SameSlots(r, a) ==
  /\ r.tag \in {"array", "linestring_array"}
  /\ len(r) = len(a)
  /\ \A i \in 0..(len(a) - 1) :
       /\ is_null(r, i) <=> is_null(a, i)
       /\ value(r, i) = value(a, i)

\* C16: after an in-range slice of a valid array, into_coord_type, the
\* conversion to LineStringArray and the widening of the offsets all succeed
\* without panicking and return an array of the same length, values and
\* nullity as the sliced array.
C16_ConversionsAfterSlice ==
  (last.op \in {"into_coord_type", "to_linestring", "widen"} /\ last.sliced) =>
    SameSlots(res, last.self)

\* The same conversions of an array that has not just been sliced.
ConversionsOfUnsliced ==
  (last.op \in {"into_coord_type", "to_linestring"} /\ last.self.geom_offsets[1] = 0
     /\ Last(last.self.geom_offsets) = Len(last.self.coords)) =>
    SameSlots(res, last.self)

\* The rings [start, end) of the polygon the scalar views.
RingRange(p) == start_end(p.geom_offsets, p.geom_index)

\* The interior rings a polygon of rings [start, end) has.
InteriorCount(p) ==
  IF RingRange(p)[2] > RingRange(p)[1]
  THEN RingRange(p)[2] - RingRange(p)[1] - 1
  ELSE 0

\* C17: interior(i) returns a ring only when i < num_interiors(), that ring
\* being ring start + 1 + i, and none for every i >= num_interiors(); it
\* never returns a ring of another polygon nor one past the ring offsets.
C17_InteriorBounds ==
  last.op = "interior" =>
    /\ res.tag = "ok"
    /\ last.i < InteriorCount(pg) =>
         res.v = Some(LineString_new(pg.coords, pg.ring_offsets,
                                     RingRange(pg)[1] + 1 + last.i))
    /\ last.i >= InteriorCount(pg) => res.v = None
    /\ res.v.some =>
         /\ res.v.v.geom_index >= RingRange(pg)[1]
         /\ res.v.v.geom_index < RingRange(pg)[2]
         /\ res.v.v.geom_index < len_proxy(pg.ring_offsets)

\* C18: for an empty polygon view (start = end) exterior() returns none,
\* num_interiors() returns 0 without arithmetic underflow, and interior(i)
\* returns none for every i.
C18_EmptyPolygon ==
  (pg.tag = "polygon_scalar" /\ RingRange(pg)[1] = RingRange(pg)[2]) =>
    /\ last.op = "exterior" => res = Ok(None)
    /\ last.op = "num_interiors" => res = Ok(0)
    /\ last.op = "interior" => res = Ok(None)

\* exterior() of an empty polygon view.
ExteriorOfEmpty ==
  (last.op = "exterior" /\ RingRange(pg)[1] = RingRange(pg)[2]) => res = Ok(None)

\* interior and num_interiors of a polygon that has rings, below the count.
InteriorBelowCount ==
  /\ (last.op = "num_interiors" /\ RingRange(pg)[2] > RingRange(pg)[1]) =>
       res = Ok(InteriorCount(pg))
  /\ (last.op = "interior" /\ last.i < InteriorCount(pg)) =>
       res = Ok(Some(LineString_new(pg.coords, pg.ring_offsets,
                                    RingRange(pg)[1] + 1 + last.i)))
  /\ (last.op = "interior" /\ last.i > InteriorCount(pg)
        /\ RingRange(pg)[2] > RingRange(pg)[1]) => res = Ok(None)

====
